---- MODULE Spec2Model ----
(***************************************************************************)
(* Model of the two evaluator modules of cloud.aws_troubleshooting:        *)
(*   plugins/modules/eval_network_acls.py   (class EvalNetworkAcls)        *)
(*   plugins/modules/eval_security_groups.py (class EvalSecurityGroups)    *)
(*                                                                         *)
(* Each module is a single synchronous call: the parameters are bound by   *)
(* __init__, execute_module runs the evaluation and the call ends in       *)
(* exactly one exit_json or fail_json.  fail_json and exit_json end the    *)
(* process (SystemExit), so they are not caught by "except Exception";     *)
(* every other exception is caught by execute_module and reported with     *)
(* the "... failed: <exception>" message.                                  *)
(*                                                                         *)
(* Encodings.  An optional value is a sequence: <<>> is None / key holds   *)
(* None, <<v>> is the value v.  A Python dict is a record whose DOMAIN is  *)
(* the set of keys present.  An IPv4 literal is its sequence of octets; a  *)
(* CIDR literal is [addr |-> octets, prefix |-> n].  The src_port_range    *)
(* string is the sequence of its "-"-separated fields, each a number.      *)
(* A security-group identifier is the sequence of its characters.          *)
(***************************************************************************)
EXTENDS Integers, Sequences, FiniteSets, TLC

VARIABLES
    module,     \* which module was invoked: "eval_network_acls" | "eval_security_groups"
    params,     \* self.<param>: the parameters bound in __init__
    pc,         \* position inside execute_module
    locals,     \* local variables of the running evaluation
    ran,        \* the sub-checks entered so far, in order, with their results
    examined,   \* number of rules the loops have looked at so far
    outcome     \* the one exit_json / fail_json the call ends with

vars == <<module, params, pc, locals, ran, examined, outcome>>

\* ------------------------------------------------------------------ bounds

\* Longest rule list drawn for the slot under study.
MaxRules == 2

\* Longest list of attached security-group identifiers.
MaxAttached == 2

\* ------------------------------------------------------------ basic values

None == <<>>
Some(v) == <<v>>
IsNone(o) == o = <<>>
Val(o) == o[1]

RECURSIVE Pow2(_)
Pow2(n) == IF n = 0 THEN 1 ELSE 2 * Pow2(n - 1)

Min(a, b) == IF a < b THEN a ELSE b
Max(a, b) == IF a > b THEN a ELSE b

\* Sequences over S of length lo..hi.
SeqsOf(S, lo, hi) == UNION {[1..n -> S] : n \in lo..hi}

\* ipaddress.ip_address(text): ValueError unless four octets in 0..255.
ip_address_ok(text) == Len(text) = 4 /\ \A i \in 1..4 : text[i] \in 0..255

\* Bits of the prefix that fall into octet i (1..4).
OctetBits(prefix, i) == Max(0, Min(8, prefix - 8 * (i - 1)))

\* ip in ip_network(cidr, strict=False): strict=False masks the host bits of
\* the literal, so only the first `prefix` bits of both are compared.
ip_in_network(ip, cidr) ==
    \A i \in 1..4 :
        LET drop == Pow2(8 - OctetBits(cidr.prefix, i))
        IN  ip[i] \div drop = cidr.addr[i] \div drop

\* port in range(port_from, port_to + 1)
port_in_range(port, port_from, port_to) == port_from <= port /\ port < port_to + 1

\* set(range(src_from, src_to)).issubset(range(port_from, port_to + 1))
range_issubset(src_from, src_to, port_from, port_to) ==
    \A p \in {src_from, src_to - 1} :
        src_from < src_to => (port_from <= p /\ p < port_to + 1)

\* --------------------------------------------------------------- outcomes

NoOutcome == [rc |-> "running", msg |-> "", exc |-> ""]
exit_json(result) == [rc |-> "exit_json", msg |-> result, exc |-> ""]
fail_json(text) == [rc |-> "fail_json", msg |-> text, exc |-> ""]

\* Result of one sub-check: it returned True, called fail_json, or raised.
Returned == [kind |-> "return", msg |-> "", exc |-> ""]
Failed(text) == [kind |-> "fail_json", msg |-> text, exc |-> ""]
Raised(e) == [kind |-> "raise", msg |-> "", exc |-> e]

\* ======================================================================
\*                       eval_network_acls.py
\* ======================================================================

NaclSuccessMsg == "Network ACLs evaluation successful"
NaclFailedMsg == "Network ACLs evaluation failed"
SrcEgressMsg == "Source Subnet Network Acl Egress Rules do not allow outbound traffic to destination"
SrcIngressMsg == "Source Subnet Network Acl Ingress Rules do not allow inbound traffic from destination"
DstEgressMsg == "Destination Subnet Network Acl Egress Rules do not allow outbound traffic to source"
DstIngressMsg == "Destination Subnet Network Acl Ingress Rules do not allow inbound traffic from source"

\* The entry list format: acl = dict(zip(keys, item)).
keys == <<"rule_number", "protocol", "rule_action", "cidr_block",
          "icmp_type", "icmp_code", "port_from", "port_to">>

KeyIndex(k) == CHOOSE i \in 1..Len(keys) : keys[i] = k

AclGet(item, k) == item[KeyIndex(k)]

\* An entry as the caller supplies it (the EXAMPLES order); icmp_type and
\* icmp_code are null, cidr_block is optional (absent on a non-IPv4 entry).
Entry(number, protocol, action, cidr, port_from, port_to) ==
    <<number, protocol, action, cidr, None, None, port_from, port_to>>

Cidr(a, b, c, d, prefix) == Some([addr |-> <<a, b, c, d>>, prefix |-> prefix])

\* ---- the four rule scans ------------------------------------------------

\* Index of the first entry, in list order, whose test holds (hits[k] is the
\* test on the k-th entry); 0 if there is none.
FirstIndex(hits) ==
    IF \E i \in 1..Len(hits) : hits[i]
    THEN CHOOSE i \in 1..Len(hits) : hits[i] /\ \A j \in 1..(i - 1) : ~hits[j]
    ELSE 0

\* Number of entries a scan looks at: up to and including the deciding one.
Looked(acls, i) == IF i = 0 THEN Len(acls) ELSE i

\* Mutant of CidrMatches: the "if acl.get("cidr_block")" guard is lost, and an
\* entry without a CIDR counts as matching every address.
CidrMatches_unguarded(item, ip) ==
    \/ IsNone(AclGet(item, "cidr_block"))
    \/ ip_in_network(ip, Val(AclGet(item, "cidr_block")))

\* acl.get("cidr_block") is truthy and ip is in ip_network(cidr_block, strict=False)
CidrMatches(item, ip) ==
    /\ ~IsNone(AclGet(item, "cidr_block"))
    /\ ip_in_network(ip, Val(AclGet(item, "cidr_block")))

\* protocol == "all" or dst_port in range(port_from, port_to + 1)
DstPortTest(item, dst_port) ==
    \/ AclGet(item, "protocol") = "all"
    \/ port_in_range(dst_port, AclGet(item, "port_from"), AclGet(item, "port_to"))

\* protocol == "all" or (src_port_from and src_port_to and
\*                       set(range(src_port_from, src_port_to)).issubset(range(...)))
\* "x and y" on numbers: None and 0 are falsy.
SrcRangeTest(item, src_port_from, src_port_to) ==
    \/ AclGet(item, "protocol") = "all"
    \/ /\ ~IsNone(src_port_from) /\ Val(src_port_from) # 0
       /\ ~IsNone(src_port_to) /\ Val(src_port_to) # 0
       /\ range_issubset(Val(src_port_from), Val(src_port_to),
                         AclGet(item, "port_from"), AclGet(item, "port_to"))

\* Mutant of src_check_egress_acls: a qualifying allow entry anywhere in the
\* list wins over an earlier qualifying deny.
src_check_egress_acls_allow_wins(acls, dst_ip, dst_port) ==
    LET Q(item) == CidrMatches(item, dst_ip) /\ DstPortTest(item, dst_port)
        A(item) == Q(item) /\ AclGet(item, "rule_action") = "allow"
        i == FirstIndex([k \in 1..Len(acls) |-> A(acls[k])])
    IN  [n |-> Looked(acls, i),
         r |-> IF i = 0 THEN Failed(SrcEgressMsg) ELSE Returned]

\* eval_src_nacls.check_egress_acls(acls, dst_ip, dst_port)
src_check_egress_acls(acls, dst_ip, dst_port) ==
    LET Q(item) == CidrMatches(item, dst_ip) /\ DstPortTest(item, dst_port)
        i == FirstIndex([k \in 1..Len(acls) |-> Q(acls[k])])
    IN  [n |-> Looked(acls, i),
         r |-> IF i = 0 THEN Failed(SrcEgressMsg)
               ELSE IF AclGet(acls[i], "rule_action") = "allow" THEN Returned
               ELSE Failed(SrcEgressMsg)]

\* eval_src_nacls.check_ingress_acls(acls, src_ip): called with dst_ip
src_check_ingress_acls(acls, peer_ip, src_port_from, src_port_to) ==
    LET Q(item) == CidrMatches(item, peer_ip) /\ SrcRangeTest(item, src_port_from, src_port_to)
        i == FirstIndex([k \in 1..Len(acls) |-> Q(acls[k])])
    IN  [n |-> Looked(acls, i),
         r |-> IF i = 0 THEN Failed(SrcIngressMsg)
               ELSE IF AclGet(acls[i], "rule_action") = "allow" THEN Returned
               ELSE Failed(SrcIngressMsg)]

\* eval_dst_nacls.check_ingress_acls(acls, src_ip, dst_port)
dst_check_ingress_acls(acls, src_ip, dst_port) ==
    LET Q(item) == CidrMatches(item, src_ip) /\ DstPortTest(item, dst_port)
        i == FirstIndex([k \in 1..Len(acls) |-> Q(acls[k])])
    IN  [n |-> Looked(acls, i),
         r |-> IF i = 0 THEN Failed(DstIngressMsg)
               ELSE IF AclGet(acls[i], "rule_action") = "allow" THEN Returned
               ELSE Failed(DstIngressMsg)]

\* eval_dst_nacls.check_egress_acls(acls, dst_ip): called with src_ip.  On an
\* "allow" entry the loop is left with break, and the statement after the
\* loop is the fail_json: the function has no path that returns.
dst_check_egress_acls(acls, peer_ip, src_port_from, src_port_to) ==
    LET Q(item) == CidrMatches(item, peer_ip) /\ SrcRangeTest(item, src_port_from, src_port_to)
        i == FirstIndex([k \in 1..Len(acls) |-> Q(acls[k])])
    IN  [n |-> Looked(acls, i),
         r |-> IF i = 0 THEN Failed(DstEgressMsg)
               ELSE IF AclGet(acls[i], "rule_action") = "allow" THEN Failed(DstEgressMsg)
               ELSE Failed(DstEgressMsg)]

\* Mutant of ResolveList: a key that is absent, or that holds no non-empty
\* list, resolves to the empty list instead of raising.
ResolveList_default(acls, key) ==
    LET Truthy(acl) == key \in DOMAIN acl /\ acl[key] # <<>>
        i == FirstIndex([k \in 1..Len(acls) |-> Truthy(acls[k])])
    IN  [r |-> Returned, list |-> IF i = 0 THEN <<>> ELSE acls[i][key]]

\* [acl[key] for acl in acls if acl[key]][0]: KeyError at the first element
\* without the key, IndexError when no element holds a non-empty list.
ResolveList(acls, key) ==
    IF \E i \in 1..Len(acls) : key \notin DOMAIN acls[i]
    THEN [r |-> Raised("KeyError"), list |-> <<>>]
    ELSE LET Truthy(acl) == acl[key] # <<>>
             i == FirstIndex([k \in 1..Len(acls) |-> Truthy(acls[k])])
         IN  IF i = 0
             THEN [r |-> Raised("IndexError"), list |-> <<>>]
             ELSE [r |-> Returned, list |-> acls[i][key]]

\* ---- inputs -------------------------------------------------------------

SrcIp == <<172, 32, 1, 31>>
DstIp == <<172, 32, 2, 13>>
SubnetIds == {"subnet-0d8ddbeaa790da839", "subnet-06cc4582cb0dde318"}
DstPorts == {3389}

\* src_port_range: not supplied, "1024-2048", "1024" (no second field),
\* "0-1024" (from = 0) and "2048-2048" (from = to).
SrcPortRanges == {None, <<1024, 2048>>, <<1024>>, <<0, 1024>>, <<2048, 2048>>}

AllowAll == Entry(100, "all", "allow", Cidr(0, 0, 0, 0, 0), 0, 65535)
DenyAllLow == Entry(50, "all", "deny", Cidr(0, 0, 0, 0, 0), 0, 65535)
DenyRdpHigh == Entry(200, "tcp", "deny", Cidr(0, 0, 0, 0, 0), 3389, 3389)
AllowNoCidr == Entry(10, "all", "allow", None, 0, 65535)
AllowOtherNet == Entry(20, "all", "allow", Cidr(10, 0, 0, 0, 8), 0, 65535)
DenyDstNet == Entry(150, "all", "deny", Cidr(172, 32, 2, 13, 24), 0, 65535)
AllowTcpRange == Entry(120, "tcp", "allow", Cidr(172, 32, 1, 31, 16), 1024, 2048)
AllowTcpAnyPort == Entry(130, "tcp", "allow", Cidr(0, 0, 0, 0, 0), 0, 65535)

AclEntries ==
    {AllowAll, DenyAllLow, DenyRdpHigh, AllowNoCidr, AllowOtherNet, DenyDstNet,
     AllowTcpRange, AllowTcpAnyPort}

Slots == {"src_egress", "src_ingress", "dst_ingress", "dst_egress"}

\* The four rule lists of a query: the slot under study holds any list of
\* 1..MaxRules entries, the other three the allow-all list of the EXAMPLES.
SlotLists ==
    {[s \in Slots |-> IF s = rich THEN l ELSE <<AllowAll>>] :
        rich \in Slots, l \in SeqsOf(AclEntries, 1, MaxRules)}

\* How a collection departs from "one element holding both lists":
\*   split   - one element per key, as the EXAMPLES write it
\*   absent  - the key of one slot is in no element
\*   empty   - one slot holds the empty list
Shapes ==
    {[kind |-> "whole", slot |-> ""], [kind |-> "split", slot |-> ""]}
    \cup [kind : {"absent", "empty"}, slot : Slots]

\* One side's collection (a list of dicts) from its egress and ingress lists.
Collection(egress, ingress, shape, eslot, islot) ==
    LET e == IF shape = [kind |-> "empty", slot |-> eslot] THEN <<>> ELSE egress
        i == IF shape = [kind |-> "empty", slot |-> islot] THEN <<>> ELSE ingress
    IN  IF shape.kind = "split" THEN <<[egress |-> e], [ingress |-> i]>>
        ELSE IF shape = [kind |-> "absent", slot |-> eslot] THEN <<[ingress |-> i]>>
        ELSE IF shape = [kind |-> "absent", slot |-> islot] THEN <<[egress |-> e]>>
        ELSE <<[egress |-> e, ingress |-> i]>>

NaclParams ==
    {[src_ip |-> SrcIp, dst_ip |-> DstIp,
      src_subnet_id |-> ss, dst_subnet_id |-> ds,
      src_port_range |-> spr, dst_port |-> dp,
      src_network_acls |->
          Collection(l["src_egress"], l["src_ingress"], sh, "src_egress", "src_ingress"),
      dst_network_acls |->
          Collection(l["dst_egress"], l["dst_ingress"], sh, "dst_egress", "dst_ingress")] :
        ss \in {"subnet-0d8ddbeaa790da839"}, ds \in SubnetIds,
        spr \in SrcPortRanges, dp \in DstPorts, l \in SlotLists, sh \in Shapes}

\* ---- execute_module / eval_nacls -----------------------------------------

NaclLocals0 ==
    [src_port_from |-> None, src_port_to |-> None,
     egress_acls |-> <<>>, ingress_acls |-> <<>>]

NaclInit ==
    /\ module = "eval_network_acls"
    /\ params \in NaclParams
    /\ pc = "eval_nacls"
    /\ locals = NaclLocals0
    /\ ran = <<>>
    /\ examined = 0
    /\ outcome = NoOutcome

\* except Exception as e: self.fail_json(msg="Network ACLs evaluation failed: {0}".format(e))
NaclExcept(e) ==
    /\ outcome' = [rc |-> "fail_json", msg |-> NaclFailedMsg, exc |-> e]
    /\ pc' = "done"

\* Mutant of NaclAfter: fail_json reports the message but does not end the
\* call, and the evaluation goes on to the next sub-check.
NaclAfter_goes_on(r, next) ==
    IF r.kind = "return" THEN pc' = next /\ outcome' = outcome
    ELSE IF r.kind = "fail_json" THEN pc' = next /\ outcome' = fail_json(r.msg)
    ELSE NaclExcept(r.exc)

\* What a sub-check's result does to the call: a return goes on to `next`,
\* a fail_json ends the call with its message, an exception is reported by
\* execute_module.
NaclAfter(r, next) ==
    IF r.kind = "return" THEN pc' = next /\ outcome' = outcome
    ELSE IF r.kind = "fail_json" THEN pc' = "done" /\ outcome' = fail_json(r.msg)
    ELSE NaclExcept(r.exc)

\* Mutant of SameSubnet: the comparison is inverted.
SameSubnet_inverted(p) == p.src_subnet_id # p.dst_subnet_id

\* if self.src_subnet_id == self.dst_subnet_id: return True
SameSubnet(p) == p.src_subnet_id = p.dst_subnet_id

\* eval_nacls up to the subnet comparison: parse src_port_range (only when
\* it is supplied), the addresses and the port, then return True when
\* both subnet ids are equal.
\* split("-")[1] raises IndexError when the string has a single field.
EvalNaclsBegin ==
    /\ module = "eval_network_acls" /\ pc = "eval_nacls"
    /\ UNCHANGED <<module, params, ran, examined>>
    /\ LET spr == params.src_port_range
       IN  IF ~IsNone(spr) /\ Len(spr) < 2
           THEN NaclExcept("IndexError") /\ UNCHANGED locals
           ELSE IF ~ip_address_ok(params.src_ip) \/ ~ip_address_ok(params.dst_ip)
           THEN NaclExcept("ValueError") /\ UNCHANGED locals
           ELSE /\ locals' = [locals EXCEPT
                      !.src_port_from = IF IsNone(spr) THEN None ELSE Some(spr[1]),
                      !.src_port_to = IF IsNone(spr) THEN None ELSE Some(spr[2])]
                /\ outcome' = outcome
                /\ pc' = IF SameSubnet(params) THEN "exit_json" ELSE "eval_src_nacls"

\* The two list resolutions at the head of eval_src_nacls / eval_dst_nacls:
\* egress first, then ingress, both before any check of that side runs.
ResolveBoth(acls, next) ==
    LET e == ResolveList(acls, "egress")
        i == ResolveList(acls, "ingress")
    IN  IF e.r.kind = "raise" THEN NaclExcept(e.r.exc) /\ UNCHANGED locals
        ELSE IF i.r.kind = "raise" THEN NaclExcept(i.r.exc) /\ UNCHANGED locals
        ELSE /\ locals' = [locals EXCEPT !.egress_acls = e.list, !.ingress_acls = i.list]
             /\ pc' = next /\ outcome' = outcome

EvalSrcNacls ==
    /\ module = "eval_network_acls" /\ pc = "eval_src_nacls"
    /\ UNCHANGED <<module, params, ran, examined>>
    /\ ResolveBoth(params.src_network_acls, "src_egress")

\* One sub-check: it is entered, its loop looks at c.n entries, and its
\* result decides how the call goes on.
RunCheck(name, c, next) ==
    /\ ran' = Append(ran, [check |-> name, kind |-> c.r.kind])
    /\ examined' = examined + c.n
    /\ NaclAfter(c.r, next)
    /\ UNCHANGED <<module, params, locals>>

\* src_egress_check_pass = check_egress_acls(egress_acls, dst_ip, dst_port)
SrcEgressCheck ==
    /\ module = "eval_network_acls" /\ pc = "src_egress"
    /\ RunCheck("src_egress",
                src_check_egress_acls(locals.egress_acls, params.dst_ip, params.dst_port),
                "src_ingress")

\* src_ingress_check_pass = check_ingress_acls(ingress_acls, dst_ip)
SrcIngressCheck ==
    /\ module = "eval_network_acls" /\ pc = "src_ingress"
    /\ RunCheck("src_ingress",
                src_check_ingress_acls(locals.ingress_acls, params.dst_ip,
                                       locals.src_port_from, locals.src_port_to),
                "eval_dst_nacls")

EvalDstNacls ==
    /\ module = "eval_network_acls" /\ pc = "eval_dst_nacls"
    /\ UNCHANGED <<module, params, ran, examined>>
    /\ ResolveBoth(params.dst_network_acls, "dst_ingress")

\* dst_ingress_check_pass = check_ingress_acls(ingress_acls, src_ip, dst_port)
DstIngressCheck ==
    /\ module = "eval_network_acls" /\ pc = "dst_ingress"
    /\ RunCheck("dst_ingress",
                dst_check_ingress_acls(locals.ingress_acls, params.src_ip, params.dst_port),
                "dst_egress")

\* dst_egress_check_pass = check_egress_acls(egress_acls, src_ip)
DstEgressCheck ==
    /\ module = "eval_network_acls" /\ pc = "dst_egress"
    /\ RunCheck("dst_egress",
                dst_check_egress_acls(locals.egress_acls, params.src_ip,
                                      locals.src_port_from, locals.src_port_to),
                "exit_json")

\* self.exit_json(result="Network ACLs evaluation successful")
NaclExitJson ==
    /\ module = "eval_network_acls" /\ pc = "exit_json"
    /\ outcome' = exit_json(NaclSuccessMsg)
    /\ pc' = "done"
    /\ UNCHANGED <<module, params, locals, ran, examined>>

NaclNext ==
    \/ EvalNaclsBegin
    \/ EvalSrcNacls
    \/ SrcEgressCheck
    \/ SrcIngressCheck
    \/ EvalDstNacls
    \/ DstIngressCheck
    \/ DstEgressCheck
    \/ NaclExitJson

NaclSpec == NaclInit /\ [][NaclNext]_vars

\* ======================================================================
\*                       eval_security_groups.py
\* ======================================================================

SgSuccessMsg == "Security Groups rules validation successful"
SgFailedMsg == "Security Groups rules validation failed"
SgEgressMsg == "Egress rules on source do not allow traffic towards destination"
SgIngressMsg == "Ingress rules on destination do not allow traffic from source"

\* Python's "a in b" on two strings: a occurs in b as a contiguous run.
str_in(a, b) ==
    \E k \in 0..(Len(b) - Len(a)) : \A j \in 1..Len(a) : b[k + j] = a[j]

\* rule.get(key)
RuleGet(rule, key) == IF key \in DOMAIN rule THEN Some(rule[key]) ELSE None

\* (rule.get("ip_protocol") == "-1")
\*   or (rule.get("from_port") == -1 and rule.get("to_port") == -1)
\*   or (dst_port in range(rule.get("from_port"), rule.get("to_port") + 1))
\* The third operand is reached only when the first two are false; with a
\* port bound absent it raises TypeError (None + 1, or range(None, n)).
ProtocolTest(rule, dst_port) ==
    LET f == RuleGet(rule, "from_port")
        t == RuleGet(rule, "to_port")
    IN  IF RuleGet(rule, "ip_protocol") = Some("-1") THEN "match"
        ELSE IF f = Some(-1) /\ t = Some(-1) THEN "match"
        ELSE IF IsNone(f) \/ IsNone(t) THEN "TypeError"
        ELSE IF port_in_range(dst_port, Val(f), Val(t)) THEN "match"
        ELSE "nomatch"

\* for cidr in rule["ip_ranges"]: if ip in ip_network(cidr["cidr_ip"], strict=False)
CidrLoop(rule, ip) ==
    \E i \in 1..Len(rule.ip_ranges) : ip_in_network(ip, rule.ip_ranges[i].cidr_ip)

\* for group in rule["user_id_group_pairs"]:
\*     if any(sg in group["group_id"] for sg in peers): return True
PairsLoop(rule, peers) ==
    \E i \in 1..Len(rule.user_id_group_pairs) :
        \E j \in 1..Len(peers) : str_in(peers[j], rule.user_id_group_pairs[i].group_id)

\* What one iteration of the rule loop does: "return" (return True),
\* "continue" (next rule) or "TypeError".
RuleStep(rule, dst_port, ip, peers, with_pairs) ==
    LET p == ProtocolTest(rule, dst_port)
    IN  IF p = "TypeError" THEN "TypeError"
        ELSE IF p = "nomatch" THEN "continue"
        ELSE IF CidrLoop(rule, ip) THEN "return"
        ELSE IF with_pairs /\ PairsLoop(rule, peers) THEN "return"
        ELSE "continue"

\* Mutant of Lookup: an identifier without a record resolves to a group
\* without rules instead of raising IndexError.
Lookup_default(catalog, sg_id) ==
    LET Same(group) == group.group_id = sg_id
        i == FirstIndex([k \in 1..Len(catalog) |-> Same(catalog[k])])
    IN  IF i = 0
        THEN Some([group_id |-> sg_id, ip_permissions |-> <<>>,
                   ip_permissions_egress |-> <<>>])
        ELSE Some(catalog[i])

\* sg = [group for group in self.security_groups if group["group_id"] == sg_id][0]
Lookup(catalog, sg_id) ==
    LET Same(group) == group.group_id = sg_id
        i == FirstIndex([k \in 1..Len(catalog) |-> Same(catalog[k])])
    IN  IF i = 0 THEN None ELSE Some(catalog[i])

\* The rule loop over one group's rules, from rule i on.
RECURSIVE RuleLoop(_, _, _, _, _, _, _)
RuleLoop(rules, i, dst_port, ip, peers, with_pairs, n) ==
    IF i > Len(rules) THEN [kind |-> "continue", n |-> n]
    ELSE LET step == RuleStep(rules[i], dst_port, ip, peers, with_pairs)
         IN  IF step = "continue"
             THEN RuleLoop(rules, i + 1, dst_port, ip, peers, with_pairs, n + 1)
             ELSE [kind |-> step, n |-> n + 1]

\* The loop over the attached groups, from group g on; after the loop the
\* fail_json with `msg`.
RECURSIVE GroupLoop(_, _, _, _, _, _, _, _, _, _)
GroupLoop(attached, g, catalog, field, dst_port, ip, peers, with_pairs, msg, n) ==
    IF g > Len(attached) THEN [r |-> Failed(msg), n |-> n]
    ELSE LET sg == Lookup(catalog, attached[g])
         IN  IF IsNone(sg) THEN [r |-> Raised("IndexError"), n |-> n]
             ELSE LET l == RuleLoop(Val(sg)[field], 1, dst_port, ip, peers, with_pairs, n)
                  IN  IF l.kind = "return" THEN [r |-> Returned, n |-> l.n]
                      ELSE IF l.kind = "TypeError" THEN [r |-> Raised("TypeError"), n |-> l.n]
                      ELSE GroupLoop(attached, g + 1, catalog, field, dst_port, ip,
                                     peers, with_pairs, msg, l.n)

\* EvalSecurityGroups.check_src_egress_rules: CIDR entries only.
check_src_egress_rules(p) ==
    GroupLoop(p.src_security_groups, 1, p.security_groups, "ip_permissions_egress",
              p.dst_port, p.dst_ip, p.dst_security_groups, FALSE, SgEgressMsg, 0)

\* eval_sg_rules.eval_src_egress_rules
eval_src_egress_rules(p) ==
    GroupLoop(p.src_security_groups, 1, p.security_groups, "ip_permissions_egress",
              p.dst_port, p.dst_ip, p.dst_security_groups, TRUE, SgEgressMsg, 0)

\* eval_sg_rules.eval_dst_ingress_rules
eval_dst_ingress_rules(p) ==
    GroupLoop(p.dst_security_groups, 1, p.security_groups, "ip_permissions",
              p.dst_port, p.src_ip, p.src_security_groups, TRUE, SgIngressMsg, 0)

\* ---- inputs -------------------------------------------------------------

SG1 == <<"s", "g", "-", "1">>
SG12 == <<"s", "g", "-", "1", "2">>
SG2 == <<"s", "g", "-", "2">>

SgDstPorts == {22, 3389}

AnyIpv4 == [cidr_ip |-> [addr |-> <<0, 0, 0, 0>>, prefix |-> 0]]
OtherNet == [cidr_ip |-> [addr |-> <<10, 0, 0, 0>>, prefix |-> 8]]
Pair(id) == [group_id |-> id]

\* ip_protocol "-1", no port keys (the egress rule of the EXAMPLES)
AllTraffic ==
    [ip_protocol |-> "-1", ip_ranges |-> <<AnyIpv4>>, user_id_group_pairs |-> <<>>]
\* tcp 3389 from anywhere (the jumphost ingress rule of the EXAMPLES)
RdpAnywhere ==
    [ip_protocol |-> "tcp", from_port |-> 3389, to_port |-> 3389,
     ip_ranges |-> <<AnyIpv4>>, user_id_group_pairs |-> <<>>]
\* tcp 3389 by reference to sg-1, no CIDR (the private ingress rule of the EXAMPLES)
RdpFromSg1 ==
    [ip_protocol |-> "tcp", from_port |-> 3389, to_port |-> 3389,
     ip_ranges |-> <<>>, user_id_group_pairs |-> <<Pair(SG1)>>]
\* tcp 3389 by reference to sg-12, with a CIDR that holds neither address
RdpFromSg12 ==
    [ip_protocol |-> "tcp", from_port |-> 3389, to_port |-> 3389,
     ip_ranges |-> <<OtherNet>>, user_id_group_pairs |-> <<Pair(SG12)>>]
\* tcp 3389 by reference to sg-2, no CIDR
RdpToSg2 ==
    [ip_protocol |-> "tcp", from_port |-> 3389, to_port |-> 3389,
     ip_ranges |-> <<>>, user_id_group_pairs |-> <<Pair(SG2)>>]
\* a specific protocol with no port keys
TcpNoPorts ==
    [ip_protocol |-> "tcp", ip_ranges |-> <<AnyIpv4>>, user_id_group_pairs |-> <<>>]
\* a specific protocol with from_port = to_port = -1
TcpAllPorts ==
    [ip_protocol |-> "tcp", from_port |-> -1, to_port |-> -1,
     ip_ranges |-> <<AnyIpv4>>, user_id_group_pairs |-> <<>>]

SgRules ==
    {AllTraffic, RdpAnywhere, RdpFromSg1, RdpFromSg12, RdpToSg2, TcpNoPorts, TcpAllPorts}

Group(id, ingress, egress) ==
    [group_id |-> id, ip_permissions |-> ingress, ip_permissions_egress |-> egress]

\* The catalog: the group of the source (sg-1), the group of the destination
\* (sg-2) and, when `third`, a record for sg-12 too.  One of the two rule
\* lists the evaluation reads is any list of 0..MaxRules rules, the other is
\* the list of the EXAMPLES.
Catalogs ==
    {<<Group(SG1, <<AllTraffic>>, IF side = "src" THEN l ELSE <<AllTraffic>>),
       Group(SG2, IF side = "dst" THEN l ELSE <<RdpFromSg1>>, <<AllTraffic>>)>>
     \o (IF third THEN <<Group(SG12, <<>>, <<>>)>> ELSE <<>>) :
        side \in {"src", "dst"}, l \in SeqsOf(SgRules, 0, MaxRules), third \in BOOLEAN}

\* The attached identifiers: one side's list is any list of 1..MaxAttached
\* identifiers, the other side's is its own group alone.
AttachedLists ==
    {[src |-> a, dst |-> <<SG2>>] : a \in SeqsOf({SG1, SG12}, 1, MaxAttached)}
    \cup {[src |-> <<SG1>>, dst |-> a] : a \in SeqsOf({SG2, SG12}, 1, MaxAttached)}

SgParams ==
    {[src_ip |-> SrcIp, dst_ip |-> DstIp, dst_port |-> dp,
      src_security_groups |-> a.src, dst_security_groups |-> a.dst,
      security_groups |-> c] :
        dp \in SgDstPorts, a \in AttachedLists, c \in Catalogs}

\* ---- execute_module -----------------------------------------------------

SgInit ==
    /\ module = "eval_security_groups"
    /\ params \in SgParams
    /\ pc = "check_src_egress_rules"
    /\ locals = <<>>
    /\ ran = <<>>
    /\ examined = 0
    /\ outcome = NoOutcome

\* except Exception as e:
\*     self.fail_json(msg="Security Groups rules validation failed: {0}".format(e))
SgAfter(r, next) ==
    IF r.kind = "return" THEN pc' = next /\ outcome' = outcome
    ELSE IF r.kind = "fail_json" THEN pc' = "done" /\ outcome' = fail_json(r.msg)
    ELSE pc' = "done" /\ outcome' = [rc |-> "fail_json", msg |-> SgFailedMsg, exc |-> r.exc]

SgRunCheck(name, c, next) ==
    /\ ran' = Append(ran, [check |-> name, kind |-> c.r.kind])
    /\ examined' = examined + c.n
    /\ SgAfter(c.r, next)
    /\ UNCHANGED <<module, params, locals>>

\* self.check_src_egress_rules()
CheckSrcEgressRules ==
    /\ module = "eval_security_groups" /\ pc = "check_src_egress_rules"
    /\ SgRunCheck("check_src_egress_rules", check_src_egress_rules(params),
                  "eval_src_egress_rules")

\* self.eval_sg_rules(): eval_src_egress_rules()
EvalSrcEgressRules ==
    /\ module = "eval_security_groups" /\ pc = "eval_src_egress_rules"
    /\ SgRunCheck("eval_src_egress_rules", eval_src_egress_rules(params),
                  "eval_dst_ingress_rules")

\* self.eval_sg_rules(): eval_dst_ingress_rules()
EvalDstIngressRules ==
    /\ module = "eval_security_groups" /\ pc = "eval_dst_ingress_rules"
    /\ SgRunCheck("eval_dst_ingress_rules", eval_dst_ingress_rules(params), "exit_json")

\* self.exit_json(result="Security Groups rules validation successful")
SgExitJson ==
    /\ module = "eval_security_groups" /\ pc = "exit_json"
    /\ outcome' = exit_json(SgSuccessMsg)
    /\ pc' = "done"
    /\ UNCHANGED <<module, params, locals, ran, examined>>

SgNext ==
    \/ CheckSrcEgressRules
    \/ EvalSrcEgressRules
    \/ EvalDstIngressRules
    \/ SgExitJson

SgSpec == SgInit /\ [][SgNext]_vars

\* ======================================================================
\*                       either module
\* ======================================================================

Init == NaclInit \/ SgInit

Next == NaclNext \/ SgNext

Spec == Init /\ [][Next]_vars

\* ======================================================================
\*                       properties
\* ======================================================================

IsNacl == module = "eval_network_acls"
IsSg == module = "eval_security_groups"
Finished == pc = "done"

\* The query names one subnet on both sides.
OneSubnet == params.src_subnet_id = params.dst_subnet_id

\* The sub-check `name` has been entered.
HasRun(name) == \E i \in 1..Len(ran) : ran[i].check = name
\* How the sub-check `name` ended ("return", "fail_json" or "raise").
KindOf(name) == ran[CHOOSE i \in 1..Len(ran) : ran[i].check = name].kind

\* The order of the four ACL sub-checks.
NaclOrder == <<"src_egress", "src_ingress", "dst_ingress", "dst_egress">>

\* The list, the peer address and the reason of each ACL sub-check.
ListOf(name) ==
    CASE name = "src_egress" -> ResolveList(params.src_network_acls, "egress").list
      [] name = "src_ingress" -> ResolveList(params.src_network_acls, "ingress").list
      [] name = "dst_ingress" -> ResolveList(params.dst_network_acls, "ingress").list
      [] name = "dst_egress" -> ResolveList(params.dst_network_acls, "egress").list
PeerOf(name) ==
    IF name \in {"src_egress", "src_ingress"} THEN params.dst_ip ELSE params.src_ip
ReasonOf(name) ==
    CASE name = "src_egress" -> SrcEgressMsg
      [] name = "src_ingress" -> SrcIngressMsg
      [] name = "dst_ingress" -> DstIngressMsg
      [] name = "dst_egress" -> DstEgressMsg

\* One collection holding both lists in a single element, each list a single
\* allow-all entry on 0.0.0.0/0.
IsAllowAll(item) ==
    /\ AclGet(item, "protocol") = "all"
    /\ AclGet(item, "rule_action") = "allow"
    /\ AclGet(item, "cidr_block") = Cidr(0, 0, 0, 0, 0)
AllowAllAcls(acls) ==
    /\ Len(acls) = 1
    /\ DOMAIN acls[1] = {"egress", "ingress"}
    /\ \A key \in {"egress", "ingress"} :
          Len(acls[1][key]) = 1 /\ IsAllowAll(acls[1][key][1])

\* src_port_range is not supplied or has its two fields.
PortRangeParses(p) == IsNone(p.src_port_range) \/ Len(p.src_port_range) = 2

\* Every attached identifier has a record, and every attached group holds an
\* ip_protocol "-1" rule on 0.0.0.0/0 among its ingress and its egress rules.
HasAllTraffic(rules) ==
    \E i \in 1..Len(rules) :
        /\ rules[i].ip_protocol = "-1"
        /\ \E j \in 1..Len(rules[i].ip_ranges) : rules[i].ip_ranges[j] = AnyIpv4
AllowAllGroups(p) ==
    \A id \in {p.src_security_groups[i] : i \in 1..Len(p.src_security_groups)}
          \cup {p.dst_security_groups[i] : i \in 1..Len(p.dst_security_groups)} :
        /\ ~IsNone(Lookup(p.security_groups, id))
        /\ HasAllTraffic(Val(Lookup(p.security_groups, id)).ip_permissions)
        /\ HasAllTraffic(Val(Lookup(p.security_groups, id)).ip_permissions_egress)

\* C1: an allow-all query is reachable.  With differing subnets and each of
\* the four NACL lists a single allow-all entry on 0.0.0.0/0, the ACL
\* evaluation ends in "Network ACLs evaluation successful"; with every
\* attached security group carrying a "-1" rule on 0.0.0.0/0 in both
\* directions, the security-group evaluation ends in its success outcome.
C1_AllowAllReachable ==
    Finished =>
        /\ (/\ IsNacl /\ ~OneSubnet /\ PortRangeParses(params)
            /\ AllowAllAcls(params.src_network_acls)
            /\ AllowAllAcls(params.dst_network_acls))
           => outcome = exit_json(NaclSuccessMsg)
        /\ (IsSg /\ AllowAllGroups(params)) => outcome = exit_json(SgSuccessMsg)

\* C2: same-subnet short-circuit.  With parseable parameters and equal
\* subnet ids, eval_nacls returns True whatever the two collections hold: no
\* list is resolved, no sub-check is entered, no entry is looked at, and the
\* call ends in the success outcome.
C2_SameSubnetShortCircuit ==
    (IsNacl /\ OneSubnet /\ PortRangeParses(params) /\ pc # "eval_nacls") =>
        /\ pc \in {"exit_json", "done"}
        /\ ran = <<>> /\ examined = 0
        /\ locals.egress_acls = <<>> /\ locals.ingress_acls = <<>>
        /\ Finished => outcome = exit_json(NaclSuccessMsg)

\* Witness of C2: a same-subnet call has ended in success although a list of
\* the destination collection cannot be resolved and the source egress list
\* starts with a deny entry that holds the destination.
C2_Witness ==
    /\ IsNacl /\ OneSubnet /\ Finished
    /\ outcome = exit_json(NaclSuccessMsg)
    /\ ResolveList(params.dst_network_acls, "ingress").r.kind = "raise"
    /\ ListOf("src_egress") # <<>>
    /\ AclGet(ListOf("src_egress")[1], "rule_action") = "deny"
    /\ CidrMatches(ListOf("src_egress")[1], params.dst_ip)

\* An entry qualifies in an egress check: its CIDR is present and holds the
\* peer address, and its protocol is "all" or the side's port test is met.
EgressQualifies(name, item) ==
    /\ CidrMatches(item, PeerOf(name))
    /\ IF name = "src_egress" THEN DstPortTest(item, params.dst_port)
       ELSE SrcRangeTest(item, locals.src_port_from, locals.src_port_to)

\* Entry i is the first entry of the egress list of `name` that qualifies.
FirstQualifying(name, i) ==
    /\ i \in 1..Len(ListOf(name))
    /\ EgressQualifies(name, ListOf(name)[i])
    /\ \A j \in 1..(i - 1) : ~EgressQualifies(name, ListOf(name)[j])

\* C3: first qualifying rule wins in list order on ACL egress.  Whenever an
\* egress check has run and the first qualifying entry of its list, in the
\* order supplied, is a deny, the call has ended with that side's egress
\* reason, whatever follows in the list and whatever the rule numbers are.
C3_FirstQualifyingDenyFails ==
    IsNacl =>
        \A name \in {"src_egress", "dst_egress"} :
            (/\ HasRun(name)
             /\ \E i \in 1..Len(ListOf(name)) :
                    /\ FirstQualifying(name, i)
                    /\ AclGet(ListOf(name)[i], "rule_action") = "deny")
            => Finished /\ outcome = fail_json(ReasonOf(name))

\* Witness of C3: the source egress check has run on a list whose first
\* qualifying entry is a deny and in which a later entry with a lower rule
\* number qualifies and allows; the call ended with the source egress reason.
C3_Witness ==
    /\ IsNacl /\ HasRun("src_egress")
    /\ outcome = fail_json(SrcEgressMsg)
    /\ \E i, j \in 1..Len(ListOf("src_egress")) :
          /\ i < j
          /\ FirstQualifying("src_egress", i)
          /\ AclGet(ListOf("src_egress")[i], "rule_action") = "deny"
          /\ EgressQualifies("src_egress", ListOf("src_egress")[j])
          /\ AclGet(ListOf("src_egress")[j], "rule_action") = "allow"
          /\ AclGet(ListOf("src_egress")[j], "rule_number")
                < AclGet(ListOf("src_egress")[i], "rule_number")

\* No entry of the list of `name` has a CIDR that is present and holds the peer.
NoCidrHoldsPeer(name) ==
    \A i \in 1..Len(ListOf(name)) :
        LET cidr == AclGet(ListOf(name)[i], "cidr_block")
        IN  IsNone(cidr) \/ ~ip_in_network(PeerOf(name), Val(cidr))

\* C4: implicit deny at the end of an ACL list.  Whenever a sub-check has run
\* on a list in which no entry has a CIDR present that holds the peer address,
\* that sub-check has failed and the call has ended with the sub-check's own
\* side-and-direction reason, whatever the actions of the entries are.
C4_ImplicitDeny ==
    IsNacl =>
        \A name \in Slots :
            (HasRun(name) /\ NoCidrHoldsPeer(name))
            => /\ KindOf(name) = "fail_json"
               /\ Finished /\ outcome = fail_json(ReasonOf(name))

\* Witness of C4: a sub-check has run and failed with its reason on a list
\* that holds an allow entry without a CIDR and an allow entry whose CIDR is
\* present but does not hold the peer address.
C4_Witness ==
    /\ IsNacl
    /\ \E name \in Slots :
          /\ HasRun(name) /\ NoCidrHoldsPeer(name)
          /\ outcome = fail_json(ReasonOf(name))
          /\ \E i, j \in 1..Len(ListOf(name)) :
                /\ AclGet(ListOf(name)[i], "rule_action") = "allow"
                /\ IsNone(AclGet(ListOf(name)[i], "cidr_block"))
                /\ AclGet(ListOf(name)[j], "rule_action") = "allow"
                /\ ~IsNone(AclGet(ListOf(name)[j], "cidr_block"))

\* No element of the collection holds a non-empty list under `key`.
NoList(acls, key) ==
    \A i \in 1..Len(acls) : key \notin DOMAIN acls[i] \/ acls[i][key] = <<>>
Unresolvable(acls) == NoList(acls, "egress") \/ NoList(acls, "ingress")

\* C7 as claimed: a missing NACL list is an input shape error, never a policy
\* denial.  With differing subnets and a source or destination collection
\* without a resolvable egress or ingress list, the call ends with "Network
\* ACLs evaluation failed" and no entry of either side has been looked at.
C7_MissingListIsShapeError ==
    (/\ IsNacl /\ ~OneSubnet /\ Finished
     /\ (Unresolvable(params.src_network_acls) \/ Unresolvable(params.dst_network_acls)))
    => /\ outcome.rc = "fail_json" /\ outcome.msg = NaclFailedMsg
       /\ examined = 0

\* C7 as amended.  With differing subnets: a source collection without a
\* resolvable list ends the call with the input shape error before any
\* sub-check is entered or any entry looked at.  When only the destination
\* collection lacks a list, the source sub-checks run first: the call never
\* ends in success, no destination sub-check is entered, and the outcome is
\* the input shape error if both source sub-checks passed and the failing
\* source sub-check's reason (or an earlier input shape error) otherwise.
C7_MissingListAmended ==
    (IsNacl /\ ~OneSubnet /\ Finished) =>
        /\ Unresolvable(params.src_network_acls) =>
              /\ outcome.rc = "fail_json" /\ outcome.msg = NaclFailedMsg
              /\ ran = <<>> /\ examined = 0
        /\ (/\ ~Unresolvable(params.src_network_acls)
            /\ Unresolvable(params.dst_network_acls)) =>
              /\ outcome.rc = "fail_json"
              /\ outcome.msg \in {NaclFailedMsg, SrcEgressMsg, SrcIngressMsg}
              /\ ~HasRun("dst_ingress") /\ ~HasRun("dst_egress")
              /\ (Len(ran) = 2 /\ ran[1].kind = "return" /\ ran[2].kind = "return")
                    => outcome.msg = NaclFailedMsg
              /\ outcome.msg = SrcEgressMsg => KindOf("src_egress") = "fail_json"
              /\ outcome.msg = SrcIngressMsg => KindOf("src_ingress") = "fail_json"

\* Witness of C7: the destination collection lacks a list, both source
\* sub-checks ran and passed, entries were looked at, and the call ended with
\* the input shape error.
C7_Witness ==
    /\ IsNacl /\ ~OneSubnet /\ Finished
    /\ ~Unresolvable(params.src_network_acls)
    /\ Unresolvable(params.dst_network_acls)
    /\ Len(ran) = 2 /\ examined > 0
    /\ outcome.rc = "fail_json" /\ outcome.msg = NaclFailedMsg

\* C9: fail-fast order of the ACL sub-checks.  With differing subnets the
\* sub-checks entered are a prefix of source-egress, source-ingress,
\* destination-ingress, destination-egress; a sub-check is entered only if
\* every earlier one passed; a sub-check that fails ends the call with its own
\* reason as the one message; success is emitted only after all four passed.
C9_FailFastOrder ==
    (IsNacl /\ ~OneSubnet) =>
        /\ Len(ran) <= Len(NaclOrder)
        /\ \A i \in 1..Len(ran) : ran[i].check = NaclOrder[i]
        /\ \A i \in 1..(Len(ran) - 1) : ran[i].kind = "return"
        /\ \A i \in 1..Len(ran) :
              ran[i].kind = "fail_json" =>
                  Finished /\ outcome = fail_json(ReasonOf(ran[i].check))
        /\ outcome.rc = "exit_json" =>
              Len(ran) = Len(NaclOrder) /\ \A i \in 1..Len(ran) : ran[i].kind = "return"

\* Witness of C9: source egress and source ingress passed, destination
\* ingress was entered third and failed, and the call ended there with the
\* destination ingress reason.
C9_Witness ==
    /\ IsNacl /\ ~OneSubnet /\ Finished
    /\ Len(ran) = 3
    /\ ran[1] = [check |-> "src_egress", kind |-> "return"]
    /\ ran[2] = [check |-> "src_ingress", kind |-> "return"]
    /\ ran[3] = [check |-> "dst_ingress", kind |-> "fail_json"]
    /\ outcome = fail_json(DstIngressMsg)

\* ---- security groups ----------------------------------------------------

SetOf(seq) == {seq[i] : i \in 1..Len(seq)}

\* The catalog holds a record with this group_id.
Known(id) == \E i \in 1..Len(params.security_groups) : params.security_groups[i].group_id = id
\* The (first) record of a known identifier.
RecordOf(id) ==
    params.security_groups[CHOOSE i \in 1..Len(params.security_groups) :
        /\ params.security_groups[i].group_id = id
        /\ \A j \in 1..(i - 1) : params.security_groups[j].group_id # id]

\* The rule has a peer-group reference equal to one of the identifiers.
EqualReference(rule, peers) ==
    \E i \in 1..Len(rule.user_id_group_pairs) :
        rule.user_id_group_pairs[i].group_id \in SetOf(peers)

\* C5: a group reference alone suffices on destination ingress.  When the
\* destination ingress check has been entered, every attached destination
\* identifier has a record, and some ingress rule of an attached destination
\* group matches on protocol/port and refers to one of src_security_groups,
\* the check has passed.
C5_GroupReferenceSuffices ==
    (/\ IsSg /\ HasRun("eval_dst_ingress_rules")
     /\ \A id \in SetOf(params.dst_security_groups) : Known(id)
     /\ \E id \in SetOf(params.dst_security_groups) :
           \E i \in 1..Len(RecordOf(id).ip_permissions) :
               /\ ProtocolTest(RecordOf(id).ip_permissions[i], params.dst_port) = "match"
               /\ EqualReference(RecordOf(id).ip_permissions[i], params.src_security_groups))
    => KindOf("eval_dst_ingress_rules") = "return"

\* The parameters with one attached list cut down to its first k identifiers.
SrcPrefix(k) ==
    [params EXCEPT !.src_security_groups = SubSeq(params.src_security_groups, 1, k)]
DstPrefix(k) ==
    [params EXCEPT !.dst_security_groups = SubSeq(params.dst_security_groups, 1, k)]

\* C6 as claimed: an unknown security-group identifier is a usage error.
\* With an identifier of src_security_groups or dst_security_groups that has
\* no record in the catalog, wherever it sits, the call ends in an error and
\* never in success.
C6_UnknownGroupIsError ==
    (/\ IsSg /\ Finished
     /\ \E id \in SetOf(params.src_security_groups) \cup SetOf(params.dst_security_groups) :
           ~Known(id))
    => outcome.rc = "fail_json"

\* C6 as amended.  An identifier without a record ends the call in an error,
\* never in success, when the scan of its list reaches it: when no rule of the
\* groups listed before it makes the scan return.  With the first identifier
\* of src_security_groups unknown the error is the "validation failed" one,
\* raised before any rule is looked at.
C6_UnknownGroupAmended ==
    (IsSg /\ Finished) =>
        /\ \A k \in 1..Len(params.src_security_groups) :
              (/\ ~Known(params.src_security_groups[k])
               /\ check_src_egress_rules(SrcPrefix(k - 1)).r.kind # "return")
              => outcome.rc = "fail_json"
        /\ \A k \in 1..Len(params.dst_security_groups) :
              (/\ ~Known(params.dst_security_groups[k])
               /\ eval_dst_ingress_rules(DstPrefix(k - 1)).r.kind # "return")
              => outcome.rc = "fail_json"
        /\ ~Known(params.src_security_groups[1]) =>
              /\ outcome = [rc |-> "fail_json", msg |-> SgFailedMsg, exc |-> "IndexError"]
              /\ examined = 0

\* Witness of C6: the second identifier of src_security_groups has no
\* record, the rules of the first group were looked at and none matched, and
\* the call ended with the IndexError of the lookup.
C6_Witness ==
    /\ IsSg /\ Finished
    /\ Len(params.src_security_groups) >= 2
    /\ Known(params.src_security_groups[1])
    /\ ~Known(params.src_security_groups[2])
    /\ examined > 0
    /\ outcome = [rc |-> "fail_json", msg |-> SgFailedMsg, exc |-> "IndexError"]

\* The rule has neither port key.
NoPortKeys(rule) == "from_port" \notin DOMAIN rule /\ "to_port" \notin DOMAIN rule

\* C8: absent port bounds mean all ports.  A rule without from_port and
\* to_port matches on protocol/port whatever its ip_protocol is, so when the
\* first egress rule the source scan meets has no port keys and a CIDR that
\* holds dst_ip (every attached identifier having a record), the scan returns
\* True there; and no call ends in the TypeError of a port test.
C8_AbsentPortsMeanAllPorts ==
    IsSg =>
        /\ (/\ HasRun("check_src_egress_rules")
            /\ \A id \in SetOf(params.src_security_groups)
                          \cup SetOf(params.dst_security_groups) : Known(id)
            /\ LET rules == RecordOf(params.src_security_groups[1]).ip_permissions_egress
               IN  /\ rules # <<>>
                   /\ NoPortKeys(rules[1])
                   /\ \E j \in 1..Len(rules[1].ip_ranges) :
                          ip_in_network(params.dst_ip, rules[1].ip_ranges[j].cidr_ip))
           => KindOf("check_src_egress_rules") = "return"
        /\ Finished => outcome.exc # "TypeError"

\* Some rule of an attached group matches on protocol/port and admits the
\* peer by a CIDR that holds its address or by a reference equal to one of
\* the peer's attached identifiers.
AdmitsPeer(attached, field, ip, peers) ==
    \E id \in SetOf(attached) :
        /\ Known(id)
        /\ \E i \in 1..Len(RecordOf(id)[field]) :
              LET rule == RecordOf(id)[field][i]
              IN  /\ ProtocolTest(rule, params.dst_port) = "match"
                  /\ \/ \E j \in 1..Len(rule.ip_ranges) :
                            ip_in_network(ip, rule.ip_ranges[j].cidr_ip)
                     \/ EqualReference(rule, peers)

\* C10: peer-group references match by equality.  A security-group check
\* passes only if some rule of an attached group matches on protocol/port and
\* either holds the peer address in a CIDR or refers to a group_id equal to
\* an identifier attached to the peer; a reference that merely contains an
\* attached identifier does not make the check pass.
C10_ReferencesMatchByEquality ==
    IsSg =>
        /\ (HasRun("eval_src_egress_rules") /\ KindOf("eval_src_egress_rules") = "return")
           => AdmitsPeer(params.src_security_groups, "ip_permissions_egress",
                         params.dst_ip, params.dst_security_groups)
        /\ (HasRun("eval_dst_ingress_rules") /\ KindOf("eval_dst_ingress_rules") = "return")
           => AdmitsPeer(params.dst_security_groups, "ip_permissions",
                         params.src_ip, params.src_security_groups)


\* ---- C11 ----------------------------------------------------------------

\* C11: the standalone source-egress pre-check and the source-egress step of
\* the combined pass decide alike: once check_src_egress_rules has run, it
\* has passed exactly when eval_src_egress_rules passes on the same inputs,
\* and a finished evaluation whose source egress rules permit the destination
\* (by CIDR or by a reference to one of dst_security_groups) has got past
\* source egress, that is, has entered the destination ingress check.
C11_PreCheckMatchesCombinedStep ==
    (IsSg /\ HasRun("check_src_egress_rules")) =>
        /\ (KindOf("check_src_egress_rules") = "return")
               <=> (eval_src_egress_rules(params).r = Returned)
        /\ (Finished /\ eval_src_egress_rules(params).r = Returned)
               => HasRun("eval_dst_ingress_rules")


\* ---- C12 ----------------------------------------------------------------

\* Every port of [from, to) lies within [port_from, port_to].
EveryPortWithin(from, to, port_from, port_to) ==
    from >= to \/ (port_from <= from /\ to - 1 <= port_to)

\* The entry qualifies in a source-port scan: its CIDR holds the peer and it
\* is of protocol "all" or its port range covers the supplied source ports.
RangeQualifies(item, peer, from, to) ==
    /\ ~IsNone(AclGet(item, "cidr_block"))
    /\ ip_in_network(peer, Val(AclGet(item, "cidr_block")))
    /\ \/ AclGet(item, "protocol") = "all"
       \/ EveryPortWithin(from, to, AclGet(item, "port_from"), AclGet(item, "port_to"))

\* The source ingress check with "qualifies" read as RangeQualifies: the
\* first qualifying entry decides, and it passes on an allow.
IngressPassesBySubset(acls, peer, from, to) ==
    LET i == FirstIndex([k \in 1..Len(acls) |-> RangeQualifies(acls[k], peer, from, to)])
    IN  i # 0 /\ AclGet(acls[i], "rule_action") = "allow"

\* C12: with src_port_range "<from>-<to>" supplied, an entry of the source
\* ingress list with a CIDR holding the peer address qualifies exactly when
\* every port of [from, to) lies within [port_from, port_to] (from = 0 and
\* from = to included), so the source ingress check passes exactly when the
\* first such entry allows; and an entry of the destination egress list is
\* tested the same way.  In particular an entry covering [0, 65535] qualifies
\* for every supplied range.
C12_SourcePortRangeSubset ==
    (IsNacl /\ ~IsNone(params.src_port_range) /\ Len(params.src_port_range) = 2) =>
        LET from == params.src_port_range[1]
            to == params.src_port_range[2]
        IN  /\ HasRun("src_ingress") =>
                ((KindOf("src_ingress") = "return")
                    <=> IngressPassesBySubset(ListOf("src_ingress"), PeerOf("src_ingress"),
                                              from, to))
            /\ HasRun("dst_egress") =>
                \A k \in 1..Len(ListOf("dst_egress")) :
                    LET item == ListOf("dst_egress")[k]
                    IN  (CidrMatches(item, PeerOf("dst_egress"))
                            /\ SrcRangeTest(item, locals.src_port_from, locals.src_port_to))
                        <=> RangeQualifies(item, PeerOf("dst_egress"), from, to)

====
